---- MODULE Spec2Model ----
(***************************************************************************)
(* Model of crypto_screener_mexc_rsi.py: the scheduled MEXC 4h-RSI scan    *)
(* and its file-based deduplication state (state.json).                    *)
(*                                                                         *)
(* One run_scan invocation is one step.  Time passes between invocations   *)
(* (Tick); a tick holds at most one invocation.  The exchange's answers,   *)
(* the Telegram send results and the outcome of the file write are inputs  *)
(* of the step.                                                            *)
(*                                                                         *)
(* Time is counted in ticks of 3600 / TicksPerHour seconds from a UTC      *)
(* midnight; the process's local time zone is taken to be UTC, so that     *)
(* datetime.utcnow().timestamp() is the epoch time of the scan.            *)
(*                                                                         *)
(* calculate_rsi is an operator on float values with exact arithmetic,     *)
(* applied to bounded close series by the runs of SpecRsi.  The runs of    *)
(* SpecSteps and SpecOverlap follow run_scan access by access, for one     *)
(* invocation at a time and for two that overlap.                          *)
(***************************************************************************)
EXTENDS Integers, Sequences, FiniteSets, TLC

\* ------------------------------------------------------------------ bounds
NumSymbols == 2
MaxTick == 10
MaxLen == 5         \* the longest close series given to calculate_rsi
MaxClose == 3       \* close prices are 1..MaxClose
MaxPeriod == 3      \* calculate_rsi is given the periods 2..MaxPeriod
MaxProbeTick == 3   \* the last tick of the runs of SpecProbes
MaxFaultTick == 6   \* the last tick of the runs of SpecFaults
TicksPerHour == 2

\* ------------------------------------------------------- program constants
TOP_N == 150
RSI_PERIOD == 14
RSI_OVERBOUGHT == 80
WindowHours == 4
MinCandleMargin == 10

AllSymbols == <<"BTC_USDT", "ETH_USDT", "SOL_USDT", "XRP_USDT", "DOGE_USDT">>
Symbols == {AllSymbols[i] : i \in 1..NumSymbols}

Range(s) == {s[i] : i \in 1..Len(s)}

\* now.hour of datetime.utcnow()
Hour(t) == (t \div TicksPerHour) % 24

\* Mutation: the time within the hour is stored, not the epoch time.
Timestamp_MinuteOfHour(t) == (t % TicksPerHour) * (3600 \div TicksPerHour)

\* now.timestamp(): epoch seconds
Timestamp(t) == t * (3600 \div TicksPerHour)

\* The calendar-aligned 4-hour window a time falls in (0-3, 4-7, 8-11, ...).
WindowOf(t) == (t \div TicksPerHour) \div WindowHours

\* ------------------------------------------------------------ state.json
\* A JSON text is a sequence of tokens.
Punct(c) == [k |-> "punct", s |-> c, n |-> 0]
Str(x) == [k |-> "string", s |-> x, n |-> 0]
Num(v) == [k |-> "number", s |-> "", n |-> v]

\* Python values of the state: None, or the dict run_scan builds.
NoneState == [isNone |-> TRUE, last_reset_time |-> 0, alerted_symbols |-> <<>>]
MkState(t, syms) == [isNone |-> FALSE, last_reset_time |-> t, alerted_symbols |-> syms]

RECURSIVE DumpItems(_)
DumpItems(l) ==
    IF Len(l) = 0 THEN <<>>
    ELSE IF Len(l) = 1 THEN <<Str(l[1])>>
    ELSE <<Str(l[1]), Punct(",")>> \o DumpItems(Tail(l))

DumpList(l) == <<Punct("[")>> \o DumpItems(l) \o <<Punct("]")>>

\* json.dump(state, f, indent=2)
json_dump(state) ==
    <<Punct("{"), Str("last_reset_time"), Punct(":"), Num(state.last_reset_time),
      Punct(","), Str("alerted_symbols"), Punct(":")>>
    \o DumpList(state.alerted_symbols) \o <<Punct("}")>>

Tok(text, i) == IF i >= 1 /\ i <= Len(text) THEN text[i] ELSE Punct("EOF")
IsPunct(text, i, c) == Tok(text, i).k = "punct" /\ Tok(text, i).s = c

ParseFail == [ok |-> FALSE, next |-> 0, items |-> <<>>]

\* The elements of an array of strings, from token i on, up to its "]".
RECURSIVE ParseItems(_, _, _)
ParseItems(text, i, acc) ==
    IF Tok(text, i).k # "string" THEN ParseFail
    ELSE IF IsPunct(text, i + 1, ",") THEN ParseItems(text, i + 2, Append(acc, Tok(text, i).s))
    ELSE IF IsPunct(text, i + 1, "]")
         THEN [ok |-> TRUE, next |-> i + 2, items |-> Append(acc, Tok(text, i).s)]
    ELSE ParseFail

ParseArray(text, i) ==
    IF ~IsPunct(text, i, "[") THEN ParseFail
    ELSE IF IsPunct(text, i + 1, "]") THEN [ok |-> TRUE, next |-> i + 2, items |-> <<>>]
    ELSE ParseItems(text, i + 1, <<>>)

EmptyObj == [ok |-> TRUE, has_time |-> FALSE, time |-> 0, has_syms |-> FALSE, syms |-> <<>>]
BadObj == [EmptyObj EXCEPT !.ok = FALSE]

\* The members of an object, from token i on, up to its "}" and the end of
\* the text.  A later member of the same name replaces an earlier one.
RECURSIVE ParseMembers(_, _, _)
ParseMembers(text, i, obj) ==
    IF Tok(text, i).k # "string" \/ ~IsPunct(text, i + 1, ":") THEN BadObj
    ELSE
      LET key == Tok(text, i).s
          isNum == Tok(text, i + 2).k = "number"
          arr == ParseArray(text, i + 2)
          after == IF isNum THEN i + 3 ELSE arr.next
          obj2 == IF key = "last_reset_time" /\ isNum
                    THEN [obj EXCEPT !.has_time = TRUE, !.time = Tok(text, i + 2).n]
                  ELSE IF key = "alerted_symbols" /\ ~isNum
                    THEN [obj EXCEPT !.has_syms = TRUE, !.syms = arr.items]
                  ELSE BadObj
      IN IF ~isNum /\ ~arr.ok THEN BadObj
         ELSE IF ~obj2.ok THEN BadObj
         ELSE IF IsPunct(text, after, ",") THEN ParseMembers(text, after + 1, obj2)
         ELSE IF IsPunct(text, after, "}") /\ after = Len(text) THEN obj2
         ELSE BadObj

\* json.load(f): ok is FALSE where json.load raises (or, for a value of a
\* type run_scan never writes, where lines 48-49 raise).
json_load(text) ==
    IF ~IsPunct(text, 1, "{") THEN BadObj
    ELSE IF IsPunct(text, 2, "}") /\ Len(text) = 2 THEN EmptyObj
    ELSE ParseMembers(text, 2, EmptyObj)

NoFile == [exists |-> FALSE, text |-> <<>>]

\* load_state(), on the file f
load_state(f) ==
    IF ~f.exists THEN NoneState
    ELSE LET data == json_load(f.text)
         IN IF ~data.ok THEN NoneState
            ELSE IF ~data.has_time THEN NoneState
            ELSE MkState(data.time, data.syms)

Faults == {"none", "open", "write"}

\* Mutation: the file is opened for appending, not for writing.
save_state_appends(f, state, fault, cut) ==
    IF fault = "open" THEN f
    ELSE IF fault = "write" THEN [exists |-> TRUE, text |-> f.text \o SubSeq(json_dump(state), 1, cut)]
    ELSE [exists |-> TRUE, text |-> f.text \o json_dump(state)]

\* save_state(state): the file after it.  open() may fail, leaving the file
\* as it was; the write may fail after open() truncated the file, leaving
\* the first cut tokens of the text.
save_state(f, state, fault, cut) ==
    IF fault = "open" THEN f
    ELSE IF fault = "write" THEN [exists |-> TRUE, text |-> SubSeq(json_dump(state), 1, cut)]
    ELSE [exists |-> TRUE, text |-> json_dump(state)]

\* ------------------------------------------------------------------ RSI
\* A float64 value: NaN, or a sign s and a magnitude n/d in lowest terms,
\* where d = 0 is infinity and n = 0 is zero (zeros and infinities are
\* signed, as in IEEE 754).  Arithmetic is exact: rounding is not modelled.
Abs(x) == IF x < 0 THEN -x ELSE x

RECURSIVE GCD(_, _)
GCD(a, b) == IF b = 0 THEN a ELSE GCD(b, a % b)

NaN == [nan |-> TRUE, s |-> 1, n |-> 0, d |-> 1]
Inf(s) == [nan |-> FALSE, s |-> s, n |-> 1, d |-> 0]
Float(s, n, d) ==
    LET g == GCD(n, d) IN [nan |-> FALSE, s |-> s, n |-> n \div g, d |-> d \div g]
Val(x) == Float(IF x < 0 THEN -1 ELSE 1, Abs(x), 1)

\* pd.isna(x)
isna(x) == x.nan
IsInf(x) == ~x.nan /\ x.d = 0
IsZero(x) == ~x.nan /\ x.n = 0

\* -x
FNeg(x) == IF x.nan THEN x ELSE [x EXCEPT !.s = -x.s]

\* The signed numerator of a finite x over the denominator x.d.
Signed(x) == x.s * x.n

\* x + y
FAdd(x, y) ==
    IF x.nan \/ y.nan THEN NaN
    ELSE IF IsInf(x) /\ IsInf(y) THEN (IF x.s = y.s THEN x ELSE NaN)
    ELSE IF IsInf(x) THEN x
    ELSE IF IsInf(y) THEN y
    ELSE LET sum == Signed(x) * y.d + Signed(y) * x.d
         IN IF sum = 0
            THEN Float(IF IsZero(x) /\ IsZero(y) /\ x.s = -1 /\ y.s = -1 THEN -1 ELSE 1, 0, 1)
            ELSE Float(IF sum < 0 THEN -1 ELSE 1, Abs(sum), x.d * y.d)

\* x - y
FSub(x, y) == FAdd(x, FNeg(y))

\* x * y
FMul(x, y) ==
    IF x.nan \/ y.nan THEN NaN
    ELSE IF (IsInf(x) /\ IsZero(y)) \/ (IsZero(x) /\ IsInf(y)) THEN NaN
    ELSE IF IsInf(x) \/ IsInf(y) THEN Inf(x.s * y.s)
    ELSE Float(x.s * y.s, x.n * y.n, x.d * y.d)

\* Mutation: a division by zero gives an undefined value.
FDiv_ByZeroIsNaN(x, y) ==
    IF x.nan \/ y.nan THEN NaN
    ELSE IF IsZero(y) THEN NaN
    ELSE IF IsInf(x) /\ IsInf(y) THEN NaN
    ELSE IF IsInf(x) THEN Inf(x.s * y.s)
    ELSE IF IsInf(y) THEN Float(x.s * y.s, 0, 1)
    ELSE Float(x.s * y.s, x.n * y.d, x.d * y.n)

\* Mutation: 0 / 0 gives 0.
FDiv_ZeroByZeroIsZero(x, y) ==
    IF x.nan \/ y.nan THEN NaN
    ELSE IF IsZero(x) /\ IsZero(y) THEN Float(x.s * y.s, 0, 1)
    ELSE IF IsInf(x) /\ IsInf(y) THEN NaN
    ELSE IF IsZero(y) \/ IsInf(x) THEN Inf(x.s * y.s)
    ELSE IF IsInf(y) THEN Float(x.s * y.s, 0, 1)
    ELSE Float(x.s * y.s, x.n * y.d, x.d * y.n)

\* x / y, as numpy divides float64 values: no exception, 0/0 and inf/inf
\* are NaN, x/0 is an infinity.
FDiv(x, y) ==
    IF x.nan \/ y.nan THEN NaN
    ELSE IF (IsZero(x) /\ IsZero(y)) \/ (IsInf(x) /\ IsInf(y)) THEN NaN
    ELSE IF IsZero(y) \/ IsInf(x) THEN Inf(x.s * y.s)
    ELSE IF IsInf(y) THEN Float(x.s * y.s, 0, 1)
    ELSE Float(x.s * y.s, x.n * y.d, x.d * y.n)

\* x > y (False when either is NaN)
FGt(x, y) ==
    IF x.nan \/ y.nan THEN FALSE
    ELSE IF IsInf(x) THEN x.s = 1 /\ ~(IsInf(y) /\ y.s = 1)
    ELSE IF IsInf(y) THEN y.s = -1
    ELSE Signed(x) * y.d > Signed(y) * x.d

\* x < y
FLt(x, y) == FGt(y, x)

\* x == y (0.0 == -0.0; False when either is NaN)
FEq(x, y) == ~x.nan /\ ~y.nan /\ ~FGt(x, y) /\ ~FGt(y, x)

\* series.diff(), line 67
diff(series) ==
    [i \in 1..Len(series) |-> IF i = 1 THEN NaN ELSE FSub(series[i], series[i - 1])]

\* gain of line 68: delta.where(delta > 0, 0)
Gain(delta) ==
    [i \in 1..Len(delta) |-> IF FGt(delta[i], Val(0)) THEN delta[i] ELSE Val(0)]

\* loss of line 69: -delta.where(delta < 0, 0)
Loss(delta) ==
    [i \in 1..Len(delta) |-> FNeg(IF FLt(delta[i], Val(0)) THEN delta[i] ELSE Val(0))]

\* The running mean of x.ewm(com, adjust=False) at index i, for x without
\* NaN: x[1] at first, then (1 - alpha) * mean + alpha * x[i] with
\* alpha = 1 / (1 + com), left as it is where it equals x[i].
RECURSIVE Weighted(_, _, _)
Weighted(x, com, i) ==
    IF i = 1 THEN x[1]
    ELSE LET weighted == Weighted(x, com, i - 1)
             alpha == FDiv(Val(1), Val(1 + com))
         IN IF FEq(weighted, x[i]) THEN weighted
            ELSE FAdd(FMul(FSub(Val(1), alpha), weighted), FMul(alpha, x[i]))

\* x.ewm(com=com, min_periods=min_periods, adjust=False).mean(): NaN until
\* min_periods values of x have been seen (at least one).
ewm_mean(x, com, min_periods) ==
    LET minp == IF min_periods < 1 THEN 1 ELSE min_periods
        nobs(i) == Cardinality({j \in 1..i : ~isna(x[j])})
    IN [i \in 1..Len(x) |-> IF nobs(i) >= minp THEN Weighted(x, com, i) ELSE NaN]

avg_gain(series, period) == ewm_mean(Gain(diff(series)), period - 1, period)
avg_loss(series, period) == ewm_mean(Loss(diff(series)), period - 1, period)

\* calculate_rsi(series, period)
calculate_rsi(series, period) ==
    LET ag == avg_gain(series, period)
        al == avg_loss(series, period)
    IN [i \in 1..Len(series) |->
          LET rs == FDiv(ag[i], al[i])
          IN FSub(Val(100), FDiv(Val(100), FAdd(Val(1), rs)))]

\* ------------------------------------------------------------- exchange
\* What the exchange answers for one instrument's 4h candles: the number of
\* candles (0: request failed or no data) and the RSI at the latest candle.
MinCandles == RSI_PERIOD + MinCandleMargin
Probes ==
    { [candles |-> 0, rsi |-> NaN],
      [candles |-> MinCandles - 1, rsi |-> Val(RSI_OVERBOUGHT + 1)],
      [candles |-> MinCandles, rsi |-> NaN],
      [candles |-> MinCandles, rsi |-> Val(RSI_OVERBOUGHT)],
      [candles |-> MinCandles, rsi |-> Val(RSI_OVERBOUGHT + 1)] }

\* The ticker lists the exchange may answer with, already filtered to USDT
\* perpetuals and ordered by 24h amount: sequences of distinct symbols.
RankedLists ==
    {l \in UNION {[1..n -> Symbols] : n \in 0..NumSymbols} :
        \A i, j \in 1..Len(l) : i # j => l[i] # l[j]}

TickerResponses == {[ok |-> FALSE, list |-> <<>>]} \cup {[ok |-> TRUE, list |-> l] : l \in RankedLists}

\* get_futures_tickers(): [] on any failure, else the first TOP_N.
get_futures_tickers(resp) ==
    IF ~resp.ok THEN <<>>
    ELSE SubSeq(resp.list, 1, IF Len(resp.list) < TOP_N THEN Len(resp.list) ELSE TOP_N)

\* get_4h_klines(symbol) is not None
KlinesUsable(p) == p.candles > 0 /\ p.candles >= MinCandles

\* RSI_OVERBOUGHT as the float of line 20
Threshold == Val(RSI_OVERBOUGHT)

\* The test of lines 172-180 for one instrument.
IsHit(p) == KlinesUsable(p) /\ ~isna(p.rsi) /\ FGt(p.rsi, Threshold)

\* Mutation: the loop ends at the first instrument it has to skip.
RECURSIVE CollectHits_StopsAtSkip(_, _)
CollectHits_StopsAtSkip(tickers, probe) ==
    IF tickers = <<>> THEN <<>>
    ELSE IF ~KlinesUsable(probe[Head(tickers)]) \/ isna(probe[Head(tickers)].rsi) THEN <<>>
    ELSE (IF IsHit(probe[Head(tickers)]) THEN <<Head(tickers)>> ELSE <<>>)
         \o CollectHits_StopsAtSkip(Tail(tickers), probe)

\* The loop of run_scan over the tickers: the symbols of the hits, in order.
RECURSIVE CollectHits(_, _)
CollectHits(tickers, probe) ==
    IF tickers = <<>> THEN <<>>
    ELSE (IF IsHit(probe[Head(tickers)]) THEN <<Head(tickers)>> ELSE <<>>)
         \o CollectHits(Tail(tickers), probe)

\* ----------------------------------------------------------------- dedup
\* Mutation: lines 157-158 are missing.
IsReset_HourOnly(hour, state) == hour % WindowHours = 0

\* Mutation: a state whose stored time lies in another window of the day
\* than the current hour forces a reset too.
IsReset_ByStoredWindow(hour, state) ==
    \/ hour % WindowHours = 0
    \/ state.isNone
    \/ ((state.last_reset_time \div 3600) % 24) \div WindowHours # hour \div WindowHours

\* is_reset of run_scan, lines 153-158
IsReset(hour, state) == (hour % WindowHours = 0) \/ state.isNone

\* Mutation: the filter of line 204 is missing.
AlertHits_NoFilter(is_reset, state, hits) == hits

\* Mutation: the filter of line 204 is applied on a reset too.
AlertHits_AlwaysFilter(is_reset, state, hits) ==
    SelectSeq(hits, LAMBDA h : h \notin Range(state.alerted_symbols))

\* alert_hits of run_scan, lines 199-204
AlertHits(is_reset, state, hits) ==
    IF is_reset THEN hits
    ELSE LET previous_symbols == Range(state.alerted_symbols)
         IN SelectSeq(hits, LAMBDA h : h \notin previous_symbols)

\* Mutation: the save of line 194 is missing.
SavesState_SkipsWhenNoHits(is_reset, tickers, hits) ==
    IF tickers = <<>> THEN FALSE
    ELSE IF hits = <<>> THEN FALSE
    ELSE is_reset

\* Mutation: the state is saved by every scan that found hits.
SavesState_EveryScanWithHits(is_reset, tickers, hits) ==
    IF tickers = <<>> THEN FALSE
    ELSE IF hits = <<>> THEN is_reset
    ELSE TRUE

\* Mutation: the early return of lines 161-163 is missing.
SavesState_WithoutTickers(is_reset, tickers, hits) ==
    IF hits = <<>> THEN is_reset
    ELSE is_reset

\* Whether run_scan reaches a save_state call: never without tickers, else
\* at line 194 (no hits) or at line 222, on a reset only.
SavesState(is_reset, tickers, hits) ==
    IF tickers = <<>> THEN FALSE
    ELSE IF hits = <<>> THEN is_reset
    ELSE is_reset

\* The dict run_scan passes to save_state, at line 194 or at lines 221-225.
StateToSave(now, hits) ==
    IF hits = <<>> THEN MkState(Timestamp(now), <<>>)
    ELSE MkState(Timestamp(now), hits)

\* Mutation: the loop stops at the first send that fails.
SendAlerts_StopsAtFailure(alert_hits, failed) ==
    LET firstFailed == {i \in 1..Len(alert_hits) : alert_hits[i] \in failed}
    IN IF firstFailed = {} THEN alert_hits
       ELSE SubSeq(alert_hits, 1, CHOOSE i \in firstFailed : \A j \in firstFailed : i <= j)

\* The loop of lines 206-215: the symbols send_telegram is called for, in
\* order, where the sends for the symbols in failed return False.
RECURSIVE SendAlerts(_, _)
SendAlerts(alert_hits, failed) ==
    IF alert_hits = <<>> THEN <<>>
    ELSE <<Head(alert_hits)>> \o SendAlerts(Tail(alert_hits), failed)

\* Mutation: save_state has no except clause.
SaveStateRaises_Uncaught(fault) == fault # "none"

\* Whether an exception leaves save_state: lines 60-61 catch every one.
SaveStateRaises(fault) == FALSE

VARIABLES
    clock,      \* the current time, in ticks
    file,       \* state.json
    mem,        \* the state dict a process that never restarted would hold,
                \* kept by the runs of Spec only
    scan,       \* the scan that ended at this instant (ran = FALSE: none)
    audit,      \* what the scans so far did, kept by the audited runs only
    series,     \* a close series and
    period,     \* a period given to calculate_rsi, by the runs of SpecRsi
    rsi_series, \* what calculate_rsi returned for them
    verdict,    \* what lines 175-188 made of it ("none": not evaluated yet)
    procs       \* the script's processes, by the runs that follow run_scan
                \* step by step: where each one is and what it holds

rsiVars == <<series, period, rsi_series, verdict>>
scanVars == <<clock, file, mem, scan, audit>>
outside == <<rsiVars, procs>>
vars == <<scanVars, outside>>

NoScan ==
    [ran |-> FALSE, now |-> 0, exists |-> FALSE, parses |-> FALSE, loaded |-> NoneState,
     memBefore |-> NoneState, is_reset |-> FALSE, tickers |-> <<>>, hits |-> <<>>,
     alert_hits |-> <<>>, failed |-> {}, saved |-> FALSE, to_save |-> NoneState,
     fault |-> "none", unchanged |-> FALSE, attempted |-> <<>>, completed |-> FALSE,
     probe |-> <<>>]

NoHist == [ran |-> FALSE, is_reset |-> FALSE, aborted |-> FALSE, hits |-> <<>>]

\* sent: the symbols notified so far in window win, the window of the latest
\* scan that got a ticker list (-1: none yet);
\* hist: what the latest scan found, prev: what the scan before it found;
\* resent: the symbols the latest scan notified again in the same window;
\* firstInWindow: whether the latest scan was the first of its window to get
\* a ticker list.
NoAudit ==
    [sent |-> {}, win |-> -1, hist |-> NoHist, prev |-> NoHist, resent |-> {},
     firstInWindow |-> FALSE]

InitScan ==
    /\ clock = 0
    /\ file = NoFile
    /\ mem = NoneState
    /\ scan = NoScan
    /\ audit = NoAudit

InitRsi ==
    /\ series = <<>>
    /\ period = RSI_PERIOD
    /\ rsi_series = <<>>
    /\ verdict = "none"

ProcIds == {1, 2}

\* A process that has not started: pc is the place in run_scan, log the
\* accesses it made so far to state.json, the exchange's candles and
\* Telegram, torn whether it read state.json while another process was
\* between the open() and the end of the write of save_state.
Idle ==
    [pc |-> "idle", now |-> 0, state |-> NoneState, is_reset |-> FALSE, tickers |-> <<>>,
     i |-> 0, hits |-> <<>>, todo |-> <<>>, log |-> <<>>, torn |-> FALSE]

InitProcs == procs = [p \in ProcIds |-> Idle]

Init == InitScan /\ InitRsi /\ InitProcs

\* Time passes between two invocations of the script.
Tick ==
    /\ clock < MaxTick
    /\ clock' = clock + 1
    /\ scan' = NoScan
    /\ UNCHANGED file

\* run_scan(), with what load_state returns at line 156 (state; parses: the
\* file text is valid JSON), the exchange's answers (resp, probe), the symbols
\* whose Telegram send fails (failed) and the outcome of the file write
\* (fault, cut).  attempted: the symbols a send was tried for; completed:
\* run_scan returned, no exception left it.
run_scan(state, parses, resp, probe, failed, fault, cut) ==
    LET now == clock
        is_reset == IsReset(Hour(now), state)
        tickers == get_futures_tickers(resp)
        hits == CollectHits(tickers, probe)
        alert_hits == IF tickers = <<>> THEN <<>> ELSE AlertHits(is_reset, state, hits)
        saves == SavesState(is_reset, tickers, hits)
        newState == StateToSave(now, hits)
        newFile == IF saves THEN save_state(file, newState, fault, cut) ELSE file
    IN /\ failed \subseteq Range(alert_hits)
       /\ file' = newFile
       /\ scan' = [ran |-> TRUE, now |-> now, exists |-> file.exists,
                   parses |-> parses, loaded |-> state,
                   memBefore |-> mem, is_reset |-> is_reset, tickers |-> tickers,
                   hits |-> hits, alert_hits |-> alert_hits, failed |-> failed,
                   saved |-> saves, to_save |-> IF saves THEN newState ELSE NoneState,
                   fault |-> IF saves THEN fault ELSE "none",
                   unchanged |-> newFile = file,
                   attempted |-> SendAlerts(alert_hits, failed),
                   completed |-> ~(saves /\ SaveStateRaises(fault)),
                   probe |-> [x \in Range(tickers) |-> probe[x]]]
       /\ UNCHANGED clock

\* The answers of the exchange that decide the hit set: a full history whose
\* latest RSI is at the threshold, or above it.
CoreProbes == {p \in Probes : KlinesUsable(p) /\ ~p.rsi.nan}

\* A scan in which the write of state.json, if any, succeeds; the exchange
\* answers each instrument's candle request with one of probes; sends may
\* fail only if sendsFail.
ScanOf(probes, sendsFail) ==
    /\ ~scan.ran
    /\ LET state == load_state(file)
           parses == json_load(file.text).ok
       IN \E resp \in TickerResponses :
            \E probe \in [Range(resp.list) -> probes] :
              \E failed \in IF sendsFail THEN SUBSET Range(CollectHits(resp.list, probe))
                                        ELSE {{}} :
                run_scan(state, parses, resp, probe, failed, "none", 0)

ScanWhere(sendsFail) == ScanOf(CoreProbes, sendsFail)

Scan == ScanWhere(TRUE)

\* A scan in which the write and every send succeed.
QuietScan == ScanWhere(FALSE)

\* The audit of a scan s, after the audit a of the scans before it.
Audited(a, s) ==
    LET base == IF a.win = WindowOf(s.now) THEN a.sent ELSE {}
        delivered == Range(s.alert_hits) \ s.failed
    IN IF s.tickers = <<>>
       THEN [a EXCEPT !.hist = [ran |-> TRUE, is_reset |-> s.is_reset, aborted |-> TRUE,
                                hits |-> <<>>],
                      !.prev = a.hist, !.resent = {}, !.firstInWindow = FALSE]
       ELSE
       [sent |-> base \cup delivered,
        win |-> WindowOf(s.now),
        hist |-> [ran |-> TRUE, is_reset |-> s.is_reset, aborted |-> s.tickers = <<>>,
                  hits |-> s.hits],
        prev |-> a.hist,
        resent |-> delivered \cap base,
        firstInWindow |-> a.win # WindowOf(s.now)]

\* A scan whose write of state.json fails: open() fails, or the write stops
\* after none or all but the last of the tokens.
CutPoints(state) == {0, Len(json_dump(state)) - 1}

FaultyScan ==
    /\ ~scan.ran
    /\ LET state == load_state(file)
           parses == json_load(file.text).ok
           is_reset == IsReset(Hour(clock), state)
       IN \E resp \in TickerResponses :
            \E probe \in [Range(resp.list) -> CoreProbes] :
              LET tickers == get_futures_tickers(resp)
                  hits == CollectHits(tickers, probe)
              IN /\ SavesState(is_reset, tickers, hits)
                 /\ \E fault \in Faults \ {"none"} :
                      \E cut \in CutPoints(StateToSave(clock, hits)) :
                        /\ fault = "open" => cut = 0
                        /\ run_scan(state, parses, resp, probe, {}, fault, cut)

\* The state dict a process that ran scan s without exiting holds after it,
\* having held m before: the one it passed to save_state, if any.
Carried(m, s) == IF s.saved THEN s.to_save ELSE m

Next ==
    \/ Tick /\ UNCHANGED <<mem, audit, outside>>
    \/ Scan /\ mem' = Carried(mem, scan') /\ UNCHANGED <<audit, outside>>

Spec == Init /\ [][Next]_vars

\* What the audit keeps once a scan is over.
Kept(a) == [a EXCEPT !.prev = NoHist, !.resent = {}, !.firstInWindow = FALSE]

AuditedTick == Tick /\ audit' = Kept(audit) /\ UNCHANGED <<mem, outside>>
AuditedScan == Scan /\ audit' = Audited(audit, scan') /\ UNCHANGED <<mem, outside>>

NextAudited == AuditedTick \/ AuditedScan

\* The same runs, with the audit kept.
SpecAudited == Init /\ [][NextAudited]_vars

\* Time passes, up to MaxFaultTick.
FaultTick == clock < MaxFaultTick /\ Tick

NextFaults ==
    \/ FaultTick /\ UNCHANGED <<mem, audit, outside>>
    \/ QuietScan /\ UNCHANGED <<mem, audit, outside>>
    \/ FaultyScan /\ UNCHANGED <<mem, audit, outside>>

\* The runs in which writes of state.json may fail (and no send does).
SpecFaults == Init /\ [][NextFaults]_vars

\* A scan in which a candle request may also fail, or return too few
\* candles, or candles whose latest RSI is NaN.
ProbingScan == ScanOf(Probes, FALSE)

\* Time passes, up to MaxProbeTick.
ProbeTick == clock < MaxProbeTick /\ Tick

NextProbes ==
    \/ ProbeTick /\ UNCHANGED <<mem, audit, outside>>
    \/ ProbingScan /\ UNCHANGED <<mem, audit, outside>>

\* The runs with every kind of answer to a candle request.
SpecProbes == Init /\ [][NextProbes]_vars

\* ------------------------------------------------- run_scan step by step
SendOp(symbol) == [op |-> "send", symbol |-> symbol]
SaveOp == [op |-> "save", symbol |-> ""]

\* Mutation: the state is saved before the sends.
Plan_SavesFirst(is_reset, state, hits) ==
    IF hits = <<>> THEN (IF is_reset THEN <<SaveOp>> ELSE <<>>)
    ELSE LET alert_hits == AlertHits(is_reset, state, hits)
         IN (IF is_reset THEN <<SaveOp>> ELSE <<>>)
            \o [k \in 1..Len(alert_hits) |-> SendOp(alert_hits[k])]

\* What run_scan does after the loop over the tickers, lines 191-225: with
\* no hits a save on a reset; else a send per alert hit, then a save on a
\* reset.
Plan(is_reset, state, hits) ==
    IF hits = <<>> THEN (IF is_reset THEN <<SaveOp>> ELSE <<>>)
    ELSE LET alert_hits == AlertHits(is_reset, state, hits)
         IN [k \in 1..Len(alert_hits) |-> SendOp(alert_hits[k])]
            \o (IF is_reset THEN <<SaveOp>> ELSE <<>>)

\* Where a process is once todo is what is left of its plan.
After(todo) == IF todo = <<>> THEN "done" ELSE "act"

\* Whether a process other than p is inside save_state, between open() and
\* the end of the write.
OtherWrites(p) == \E q \in ProcIds \ {p} : procs[q].pc = "dump"

\* Lines 150-158: the time is taken and state.json is read.
Start(p) ==
    /\ procs[p].pc = "idle"
    /\ LET state == load_state(file)
       IN procs' = [procs EXCEPT ![p] =
             [Idle EXCEPT !.pc = "tickers", !.now = clock, !.state = state,
                          !.is_reset = IsReset(Hour(clock), state),
                          !.log = <<"read">>, !.torn = OtherWrites(p)]]
    /\ UNCHANGED <<scanVars, rsiVars>>

\* Lines 160-165: the ticker list is requested.
Tickers(p) ==
    /\ procs[p].pc = "tickers"
    /\ \E resp \in TickerResponses :
         LET tickers == get_futures_tickers(resp)
         IN procs' = [procs EXCEPT ![p].tickers = tickers, ![p].i = 1,
                                   ![p].pc = IF tickers = <<>> THEN "done" ELSE "klines"]
    /\ UNCHANGED <<scanVars, rsiVars>>

\* Lines 166-189, once round the loop: the candles of one instrument are
\* requested; after the last one the rest of the scan is laid out.
Klines(p) ==
    /\ procs[p].pc = "klines"
    /\ \E probe \in CoreProbes :
         LET me == procs[p]
             symbol == me.tickers[me.i]
             hits == me.hits \o (IF IsHit(probe) THEN <<symbol>> ELSE <<>>)
             last == me.i = Len(me.tickers)
             todo == IF last THEN Plan(me.is_reset, me.state, hits) ELSE <<>>
         IN procs' = [procs EXCEPT ![p].hits = hits, ![p].i = me.i + 1,
                                   ![p].log = Append(me.log, "fetch"),
                                   ![p].todo = todo,
                                   ![p].pc = IF last THEN After(todo) ELSE "klines"]
    /\ UNCHANGED <<scanVars, rsiVars>>

\* Lines 207-215, once round the loop: one send_telegram call.
Send(p) ==
    /\ procs[p].pc = "act"
    /\ Head(procs[p].todo).op = "send"
    /\ procs' = [procs EXCEPT ![p].log = Append(procs[p].log, "send"),
                              ![p].todo = Tail(procs[p].todo),
                              ![p].pc = After(Tail(procs[p].todo))]
    /\ UNCHANGED <<scanVars, rsiVars>>

\* Line 57: save_state opens state.json for writing, which empties it.
Open(p) ==
    /\ procs[p].pc = "act"
    /\ Head(procs[p].todo).op = "save"
    /\ file' = save_state(file, StateToSave(procs[p].now, procs[p].hits), "write", 0)
    /\ procs' = [procs EXCEPT ![p].log = Append(procs[p].log, "write"), ![p].pc = "dump"]
    /\ UNCHANGED <<clock, mem, scan, audit, rsiVars>>

\* Lines 58-59: the text is written and the file closed.
Dump(p) ==
    /\ procs[p].pc = "dump"
    /\ file' = save_state(file, StateToSave(procs[p].now, procs[p].hits), "none", 0)
    /\ procs' = [procs EXCEPT ![p].todo = Tail(procs[p].todo),
                              ![p].pc = After(Tail(procs[p].todo))]
    /\ UNCHANGED <<clock, mem, scan, audit, rsiVars>>

Step(p) == Start(p) \/ Tickers(p) \/ Klines(p) \/ Send(p) \/ Open(p) \/ Dump(p)

\* Time passes between two invocations: the process that ended is gone, the
\* next invocation is a new one.
TickBetween ==
    /\ procs[1].pc \in {"idle", "done"}
    /\ clock < MaxTick
    /\ clock' = clock + 1
    /\ procs' = [procs EXCEPT ![1] = Idle]
    /\ UNCHANGED <<file, mem, scan, audit, rsiVars>>

NextSteps == TickBetween \/ Step(1)

\* One invocation at a time, followed step by step.
SpecSteps == Init /\ [][NextSteps]_vars

\* Time passes before the two invocations start.
TickBefore ==
    /\ \A p \in ProcIds : procs[p].pc = "idle"
    /\ clock < MaxTick
    /\ clock' = clock + 1
    /\ UNCHANGED <<file, mem, scan, audit, rsiVars, procs>>

NextOverlap == TickBefore \/ \E p \in ProcIds : Step(p)

\* Two invocations of the script that overlap: nothing in the script or in
\* its scheduling keeps a second one from starting before the first ended.
SpecOverlap == Init /\ [][NextOverlap]_vars

\* ------------------------------------------------------- calculate_rsi
\* The close series calculate_rsi is applied to.
Closes == {Val(c) : c \in 1..MaxClose}
CloseSeries == UNION {[1..n -> Closes] : n \in 1..MaxLen}
Periods == 2..MaxPeriod

InitSeries ==
    /\ InitScan
    /\ series \in CloseSeries
    /\ period \in Periods
    /\ rsi_series = <<>>
    /\ verdict = "none"
    /\ InitProcs

\* Lines 175-188 for one instrument whose candles get_4h_klines returned:
\* the RSI series, its last value, and what becomes of the instrument.
Evaluate ==
    /\ verdict = "none"
    /\ rsi_series' = calculate_rsi(series, period)
    /\ LET latest_rsi == rsi_series'[Len(series)]
       IN verdict' = IF isna(latest_rsi) THEN "skipped"
                     ELSE IF IsHit([candles |-> MinCandles, rsi |-> latest_rsi]) THEN "hit"
                     ELSE "below"
    /\ UNCHANGED <<series, period, scanVars, procs>>

NextRsi == Evaluate

\* calculate_rsi and the test of its latest value, on every close series.
SpecRsi == InitSeries /\ [][NextRsi]_vars

\* ================================================================ claims
Readable(st) == ~st.isNone

\* C1: over any sequence of scans, an instrument is notified at most once in
\* any one calendar-aligned 4-hour window: no scan notifies a symbol that an
\* earlier scan of the same window has notified.
C1_AtMostOncePerWindow == audit.resent = {}

\* C2: when two consecutive non-boundary scans find the same hit set, the
\* second one notifies nothing.
C2_DedupIdempotence ==
    (/\ scan.ran /\ ~scan.is_reset /\ scan.tickers # <<>>
     /\ audit.prev.ran /\ ~audit.prev.is_reset /\ ~audit.prev.aborted
     /\ Range(audit.prev.hits) = Range(scan.hits))
    => scan.alert_hits = <<>>

\* C9: the persisted notified set is reset by the first scan of a window and
\* by no later scan of that window: a scan that got a ticker list writes the
\* state exactly when it is the first such scan of its window.
C9_ClearedExactlyAtWindowStart ==
    (scan.ran /\ scan.tickers # <<>> /\ audit.hist.ran)
    => (scan.saved <=> audit.firstInWindow)

\* C3: after a boundary scan that got a ticker list and found the hits H, the
\* persisted state holds exactly H as alerted_symbols and the scan time as
\* last_reset_time, whatever it held before, also when H is empty.
C3_WindowReset ==
    (scan.ran /\ scan.is_reset /\ scan.tickers # <<>>)
    => /\ Readable(load_state(file))
       /\ load_state(file).alerted_symbols = scan.hits
       /\ load_state(file).last_reset_time = Timestamp(scan.now)

\* A boundary-hour scan that finds no hits while the state holds a symbol.
C3_Witness ==
    /\ scan.ran /\ scan.is_reset /\ scan.tickers # <<>>
    /\ Hour(scan.now) % WindowHours = 0
    /\ Readable(scan.loaded) /\ scan.loaded.alerted_symbols # <<>>
    /\ scan.hits = <<>>

\* C4: a non-boundary scan leaves state.json as it was, whether it finds no
\* hits, only hits already notified, or new hits.
C4_NonBoundaryKeepsState ==
    (scan.ran /\ ~scan.is_reset) => (scan.unchanged /\ ~scan.saved)

\* A non-boundary scan that notifies a new hit and suppresses another.
C4_Witness ==
    /\ scan.ran /\ ~scan.is_reset
    /\ scan.alert_hits # <<>> /\ scan.alert_hits # scan.hits

\* C5: a non-boundary scan notifies exactly the current hits whose symbol is
\* not in alerted_symbols of the state loaded at its start.
C5_NonBoundaryNotifiesNew ==
    (scan.ran /\ ~scan.is_reset)
    => /\ Range(scan.alert_hits) = Range(scan.hits) \ Range(scan.loaded.alerted_symbols)
       /\ Len(scan.alert_hits) = Cardinality(Range(scan.alert_hits))

\* A non-boundary scan with one hit in the loaded set and one outside it.
C5_Witness ==
    /\ scan.ran /\ ~scan.is_reset
    /\ Range(scan.hits) \cap Range(scan.loaded.alerted_symbols) # {}
    /\ Range(scan.hits) \ Range(scan.loaded.alerted_symbols) # {}

\* C6: a boundary scan notifies every current hit, also those in the loaded
\* state's alerted_symbols.
C6_BoundaryNotifiesAll ==
    (scan.ran /\ scan.is_reset) => scan.alert_hits = scan.hits

\* A boundary-hour scan one of whose hits is in the loaded state.
C6_Witness ==
    /\ scan.ran /\ scan.is_reset /\ Readable(scan.loaded)
    /\ Range(scan.hits) \cap Range(scan.loaded.alerted_symbols) # {}

\* C7: the state read back from state.json is the state dict a process that
\* never exited would hold, and every scan decides as that process would:
\* save_state then load_state gives the same time and the same symbols.
C7_RestartSafe ==
    /\ load_state(file) = mem
    /\ scan.ran =>
         /\ scan.loaded = scan.memBefore
         /\ scan.alert_hits =
              IF scan.tickers = <<>> THEN <<>>
              ELSE AlertHits(IsReset(Hour(scan.now), scan.memBefore), scan.memBefore,
                             scan.hits)

\* A non-boundary scan that suppresses a hit by a state read back from a file
\* of two symbols.
C7_Witness ==
    /\ scan.ran /\ ~scan.is_reset
    /\ Len(scan.loaded.alerted_symbols) = 2
    /\ scan.hits # <<>> /\ scan.alert_hits # scan.hits

\* C8: with state.json missing or unparseable, load_state returns None and
\* the scan goes on as a reset whatever the hour: every hit is notified and,
\* with a ticker list, a fresh state is written.
C8_UnreadableStateForcesReset ==
    (scan.ran /\ (~scan.exists \/ ~scan.parses))
    => /\ scan.loaded.isNone
       /\ scan.is_reset
       /\ scan.alert_hits = scan.hits
       /\ scan.tickers # <<>> =>
            /\ scan.saved
            /\ scan.to_save = MkState(Timestamp(scan.now), scan.hits)
            /\ scan.fault = "none" => load_state(file) = scan.to_save

\* A scan in a non-boundary hour that finds a truncated state.json, notifies
\* its hits and writes a fresh state.
C8_Witness ==
    /\ scan.ran /\ scan.exists /\ ~scan.parses
    /\ Hour(scan.now) % WindowHours # 0
    /\ scan.hits # <<>> /\ scan.alert_hits = scan.hits
    /\ scan.fault = "none" /\ Readable(load_state(file))

\* C10: last_reset_time never decreases: a scan that finds a stored time and
\* writes the state stores a time that is not earlier.
C10_ResetTimeMonotone ==
    (scan.ran /\ Readable(scan.loaded) /\ Readable(load_state(file)))
    => load_state(file).last_reset_time >= scan.loaded.last_reset_time

\* A scan that replaces a stored time by a later one.
C10_Witness ==
    /\ scan.ran /\ scan.saved /\ Readable(scan.loaded)
    /\ load_state(file).last_reset_time > scan.loaded.last_reset_time

\* C11: a scan that gets no ticker list (the request failed, or the list is
\* empty) notifies nothing and leaves state.json as it was, also in a
\* boundary hour and also when state.json could not be read.
C11_NoTickersNoEffect ==
    (scan.ran /\ scan.tickers = <<>>)
    => /\ scan.alert_hits = <<>> /\ scan.attempted = <<>>
       /\ ~scan.saved
       /\ scan.unchanged

\* A boundary-hour scan that finds a truncated state.json and gets no
\* ticker list.
C11_Witness ==
    /\ scan.ran /\ scan.tickers = <<>>
    /\ Hour(scan.now) % WindowHours = 0
    /\ scan.exists /\ ~scan.parses /\ scan.loaded.isNone /\ scan.is_reset
    /\ file.exists /\ load_state(file).isNone

\* C12: a send is tried for every hit to notify, whichever sends fail, and
\* a boundary scan writes the full hit set whichever sends fail.
C12_SendFailureIsolated ==
    scan.ran
    => /\ scan.attempted = scan.alert_hits
       /\ (scan.is_reset /\ scan.tickers # <<>>)
            => /\ scan.saved
               /\ scan.to_save.alerted_symbols = scan.hits
               /\ load_state(file).alerted_symbols = scan.hits

\* A boundary scan of two hits whose first send fails.
C12_Witness ==
    /\ scan.ran /\ scan.is_reset /\ Len(scan.alert_hits) = 2
    /\ scan.alert_hits[1] \in scan.failed
    /\ scan.alert_hits[2] \notin scan.failed
    /\ Len(scan.attempted) = 2
    /\ load_state(file).alerted_symbols = scan.hits

\* C13: a scan whose write of state.json fails still returns normally,
\* after a send for every hit to notify; a failed open() leaves the file as
\* it was, and where the failure leaves a file load_state cannot read, a
\* scan of that file is a reset at every hour.
C13_WriteFailureTolerated ==
    (scan.ran /\ scan.fault # "none")
    => /\ scan.completed
       /\ scan.attempted = scan.alert_hits
       /\ scan.fault = "open" => scan.unchanged
       /\ LET left == load_state(file)
          IN left.isNone => \A h \in 0..23 : IsReset(h, left)

\* A scan that notifies a hit and whose write stops half way, leaving a
\* file that load_state cannot read.
C13_Witness ==
    /\ scan.ran /\ scan.fault = "write" /\ scan.completed
    /\ scan.alert_hits # <<>>
    /\ file.exists /\ file.text # <<>> /\ load_state(file).isNone

Evaluated == verdict # "none"
LastIndex == Len(series)

\* C14: calculate_rsi returns NaN at every index below period (counted from
\* 0), so a series of period entries or fewer has no defined RSI at all.
C14_UndefinedBeforePeriod ==
    Evaluated => \A i \in 1..Len(series) : (i - 1 < period) => isna(rsi_series[i])

\* C15: at an index where the smoothed loss is 0 and the smoothed gain is
\* above 0, the RSI is exactly 100.
C15_AllGainsIsHundred ==
    Evaluated =>
      LET gains == avg_gain(series, period)
          losses == avg_loss(series, period)
      IN \A i \in 1..Len(series) :
           (IsZero(losses[i]) /\ FGt(gains[i], Val(0))) => rsi_series[i] = Val(100)

\* A series with a rise and no fall, long enough for the averages.
C15_Witness ==
    /\ Evaluated
    /\ IsZero(avg_loss(series, period)[LastIndex])
    /\ FGt(avg_gain(series, period)[LastIndex], Val(0))
    /\ rsi_series[LastIndex] = Val(100)
    /\ verdict = "hit"

\* C16: where both smoothed averages are 0 at the latest index the latest
\* RSI is NaN, neither 0 nor 100, and an instrument whose latest RSI is NaN
\* is skipped: it is no hit.
C16_FlatIsUndefinedAndSkipped ==
    Evaluated =>
      /\ (/\ IsZero(avg_loss(series, period)[LastIndex])
          /\ IsZero(avg_gain(series, period)[LastIndex]))
         => isna(rsi_series[LastIndex])
      /\ isna(rsi_series[LastIndex]) =>
           /\ verdict = "skipped"
           /\ ~IsHit([candles |-> MinCandles, rsi |-> rsi_series[LastIndex]])

\* A flat series long enough for the averages to be defined (and 0).
C16_Witness ==
    /\ Evaluated /\ Len(series) > period
    /\ IsZero(avg_loss(series, period)[LastIndex])
    /\ IsZero(avg_gain(series, period)[LastIndex])
    /\ isna(rsi_series[LastIndex]) /\ verdict = "skipped"

\* What the claim asks of an instrument's candles for a hit.
Qualifies(p) ==
    /\ p.candles >= RSI_PERIOD + 10
    /\ ~p.rsi.nan
    /\ p.rsi.s * p.rsi.n > RSI_OVERBOUGHT * p.rsi.d

\* C17: the hits of a scan are, in ranking order, exactly the instruments
\* of the ticker list whose candle request returned at least RSI_PERIOD + 10
\* candles with a latest RSI that is defined and above the threshold; an
\* instrument that is skipped does not keep a later one from being a hit.
C17_HitsAreTheQualifying ==
    scan.ran => scan.hits = SelectSeq(scan.tickers, LAMBDA x : Qualifies(scan.probe[x]))

\* A scan whose first instrument's candle request fails and whose second
\* instrument is a hit.
C17_Witness ==
    /\ scan.ran /\ Len(scan.tickers) = 2
    /\ scan.probe[scan.tickers[1]].candles = 0
    /\ scan.hits = <<scan.tickers[2]>>

\* C18: a scan reads state.json once, before it requests any candles, and
\* writes it at most once, after all its sends: in the accesses of a scan the
\* read is the first and the only one, and a write is the last.
C18_ReadFirstWriteLast ==
    LET log == procs[1].log
    IN /\ procs[1].pc # "idle" => log # <<>>
       /\ \A k \in 1..Len(log) :
            /\ log[k] = "read" <=> k = 1
            /\ log[k] = "write" => k = Len(log)
       /\ procs[1].pc = "done" => procs[1].todo = <<>>

\* A scan that has read the state, requested candles, sent two
\* notifications and written the state.
C18_Witness ==
    /\ procs[1].pc = "done"
    /\ procs[1].log = <<"read", "fetch", "fetch", "send", "send", "write">>
    /\ load_state(file).alerted_symbols = procs[1].hits

\* C19: with two scans that overlap, no scan reads state.json while the
\* other one is writing it.
C19_NoTornRead == \A p \in ProcIds : ~procs[p].torn

\* The times a readable state may hold, and the state st with another time.
StoredTimes == {Timestamp(t) : t \in 0..MaxTick}
WithTime(st, t) == [st EXCEPT !.last_reset_time = t]

\* What the scan s notifies, and the state persisted after it, had it
\* loaded the state st.
NotifiedFrom(st, s) ==
    IF s.tickers = <<>> THEN <<>>
    ELSE AlertHits(IsReset(Hour(s.now), st), st, s.hits)
PersistedFrom(st, s) ==
    IF SavesState(IsReset(Hour(s.now), st), s.tickers, s.hits)
    THEN StateToSave(s.now, s.hits)
    ELSE st

\* C20 as stated: had the scan loaded a readable state with any other
\* last_reset_time, it would notify the same hits and leave the same
\* persisted state.
C20_StoredTimeIrrelevant ==
    (scan.ran /\ Readable(scan.loaded)) =>
      LET persisted == load_state(file)
      IN \A t \in StoredTimes :
           /\ NotifiedFrom(WithTime(scan.loaded, t), scan) = scan.alert_hits
           /\ PersistedFrom(WithTime(scan.loaded, t), scan) = persisted

\* C20, amended: had the scan loaded a readable state with any other
\* last_reset_time, it would notify the same hits, and it would write the
\* same state if it writes; a scan that does not write leaves the persisted
\* state as it found it, last_reset_time included.
C20_StoredTimeNotConsulted ==
    (scan.ran /\ Readable(scan.loaded)) =>
      LET persisted == load_state(file)
      IN /\ ~scan.saved => persisted = scan.loaded
         /\ \A t \in StoredTimes :
              LET other == WithTime(scan.loaded, t)
              IN /\ NotifiedFrom(other, scan) = scan.alert_hits
                 /\ SavesState(IsReset(Hour(scan.now), other), scan.tickers, scan.hits)
                      = scan.saved
                 /\ PersistedFrom(other, scan) = IF scan.saved THEN persisted ELSE other

\* A non-boundary scan that suppresses a hit by a state stored in an
\* earlier window, and leaves that state in place.
C20_Witness ==
    /\ scan.ran /\ ~scan.is_reset /\ Readable(scan.loaded)
    /\ WindowOf(scan.now) * WindowHours * 3600 > scan.loaded.last_reset_time
    /\ scan.hits # <<>> /\ scan.alert_hits # scan.hits
    /\ load_state(file) = scan.loaded
====
